---- MODULE Spec2Model ----
(***************************************************************************)
(* Empathetic code reviewer: the RAG system (knowledge base, vector index, *)
(* retrieval), the severity classifier, the feedback synthesizer, the      *)
(* report assembler and main() (src/main.py) and the HTTP handlers         *)
(* (src/app.py). The program is started as the server or as main().        *)
(*                                                                         *)
(* Text is modelled by TLA+ strings, character by character where the code *)
(* looks at characters (lower(), strip(), split(), substring tests).       *)
(* Python values that the code inspects dynamically (the value json.loads  *)
(* returns, the values of a result dict) carry a type tag: [t, v].         *)
(* Embedding vectors have Dim components, each in tenths, so that an inner *)
(* product is in hundredths and the threshold 0.1 is the integer 10.       *)
(***************************************************************************)
EXTENDS Integers, Sequences, FiniteSets, TLC

VARIABLES
    env,                \* the process environment: variable name -> value
    entry,              \* the program that was started: "app" | "main"
    phase,              \* "starting" | "loading" | "serving" | "failed",
                        \* and for main.py "main" | "exited"
    constructions,      \* how many times EmpathyRAGSystem.__init__ has run
    load_pos,           \* position of the loading loop in the catalog
    knowledge_base,     \* EmpathyRAGSystem.knowledge_base
    index,              \* the vectors held by EmpathyRAGSystem.index
    pc,                 \* position of the request being handled
    endpoint,           \* "/review" | "/analyze" | "" when idle
    input_data,         \* the argument of process_review
    i,                  \* the loop counter of process_review (from 1)
    query_embedding,    \* the embedding of the query being retrieved for
    relevant_knowledge, \* process_review's local
    severity,           \* process_review's local
    markdown_report,    \* process_review's local
    all_feedback,       \* process_review's local
    result,             \* what process_review returned or raised
    http_response,      \* what the handler answered
    calls,              \* provider calls made since process_review was called
    sev_comment,        \* input of the severity classifier taken alone
    sev_result,         \* its output
    startup_error,      \* what the program said when it gave up starting
    report_file,        \* empathetic_review_report.md, written by main()
    parser              \* the fallback parser taken alone: text, lines, place

vars == <<env, entry, phase, constructions, load_pos, knowledge_base, index, pc,
          endpoint, input_data, i, query_embedding, relevant_knowledge,
          severity, markdown_report, all_feedback, result, http_response,
          calls, sev_comment, sev_result, startup_error, report_file,
          parser>>

-----------------------------------------------------------------------------
(* Bounds of the model.                                                    *)

\* components of an embedding vector (the code's dimension is 768)
Dim == 2
\* longest review_comments list of a request
MaxComments == 2
\* most pieces concatenated into one classifier input
MaxPieces == 2
\* most embedding calls that fail while the knowledge base is loaded
MaxLoadFailures == 1
\* most lines of a text given to the fallback parser taken alone
MaxParseLines == 3

-----------------------------------------------------------------------------
(* Python strings.                                                         *)

Uppers == "ABCDEFGHIJKLMNOPQRSTUVWXYZ"
Lowers == "abcdefghijklmnopqrstuvwxyz"

CharAt(s, n) == SubSeq(s, n, n)

UpperSet == {CharAt(Uppers, n) : n \in 1..Len(Uppers)}
LowerOf ==
    [c \in UpperSet |->
        CharAt(Lowers, CHOOSE n \in 1..Len(Uppers) : CharAt(Uppers, n) = c)]

\* str.lower() on one character
LowerChar(c) == IF c \in UpperSet THEN LowerOf[c] ELSE c

RECURSIVE lower(_)
lower(s) == IF s = "" THEN "" ELSE LowerChar(Head(s)) \o lower(Tail(s))

\* Python's `w in s` for strings
Contains(s, w) ==
    \E n \in 1..(Len(s) - Len(w) + 1) : SubSeq(s, n, n + Len(w) - 1) = w

startswith(s, w) == Len(s) >= Len(w) /\ SubSeq(s, 1, Len(w)) = w

\* The backtick cannot be written in a TLA+ string: "~" stands for it in
\* every text of the model, so the code fence marker is "~~~".
FENCE == "~~~"

IsSpace(c) == c \in {" ", "\t", "\n", "\r"}

RECURSIVE lstrip(_)
lstrip(s) == IF s # "" /\ IsSpace(Head(s)) THEN lstrip(Tail(s)) ELSE s

RECURSIVE rstrip(_)
rstrip(s) ==
    IF s # "" /\ IsSpace(CharAt(s, Len(s)))
    THEN rstrip(SubSeq(s, 1, Len(s) - 1))
    ELSE s

strip(s) == rstrip(lstrip(s))

\* s.split('\n'): the pieces between newlines, at least one
RECURSIVE split_lines(_)
split_lines(s) ==
    IF \E n \in 1..Len(s) : CharAt(s, n) = "\n"
    THEN LET n == CHOOSE m \in 1..Len(s) :
                     /\ CharAt(s, m) = "\n"
                     /\ \A l \in 1..(m - 1) : CharAt(s, l) # "\n"
         IN <<SubSeq(s, 1, n - 1)>> \o split_lines(SubSeq(s, n + 1, Len(s)))
    ELSE <<s>>

-----------------------------------------------------------------------------
(* The severity classifier.                                                *)

harsh_indicators ==
    <<"bad", "wrong", "terrible", "awful", "stupid", "inefficient">>

moderate_indicators == <<"should", "could", "consider", "might">>

\* any(indicator in text for indicator in indicators)
AnyIn(indicators, text) ==
    \E n \in 1..Len(indicators) : Contains(text, indicators[n])

\* the classifier without the lower-casing of the comment
DetermineSeverityCaseSensitive(comment) ==
    IF AnyIn(harsh_indicators, comment) THEN "harsh"
    ELSE IF AnyIn(moderate_indicators, comment) THEN "moderate"
    ELSE "neutral"

_determine_severity(comment) ==
    LET comment_lower == lower(comment)
    IN IF AnyIn(harsh_indicators, comment_lower) THEN "harsh"
       ELSE IF AnyIn(moderate_indicators, comment_lower) THEN "moderate"
       ELSE "neutral"

-----------------------------------------------------------------------------
(* Python values whose type the code finds out at run time.                *)

PyNone == [t |-> "NoneType"]
PyStr(s) == [t |-> "str", v |-> s]
PyInt(n) == [t |-> "int", v |-> n]
PyList(l) == [t |-> "list", v |-> l]
PyDict(d) == [t |-> "dict", v |-> d]

\* bool(x)
Truthy(x) ==
    CASE x.t = "NoneType" -> FALSE
      [] x.t = "str" -> x.v # ""
      [] x.t = "int" -> x.v # 0
      [] x.t = "list" -> x.v # <<>>
      [] x.t = "dict" -> DOMAIN x.v # {}

\* f"{x}": str(x); the values formatted here are str, int and None
PyFormat(x) ==
    CASE x.t = "str" -> x.v
      [] x.t = "int" -> ToString(x.v)
      [] OTHER -> "None"

\* d.get(key, default) on a dict d
DictGet(d, key, default) == IF key \in DOMAIN d.v THEN d.v[key] ELSE default

\* d[key] = value on a dict d
DictSet(d, key, value) ==
    PyDict([k \in DOMAIN d.v \cup {key} |-> IF k = key THEN value ELSE d.v[k]])

\* seq[idx] with Python's indices: from 0, negative ones count from the end
PyInRange(seq, idx) == idx < Len(seq) /\ idx >= 0 - Len(seq)
PyGetItem(seq, idx) == IF idx >= 0 THEN seq[idx + 1] ELSE seq[Len(seq) + idx + 1]

Range(f) == {f[x] : x \in DOMAIN f}

\* list(set(l)): the distinct elements of l, in an order Python does not fix
RECURSIVE SetToSeq(_)
SetToSeq(S) ==
    IF S = {} THEN <<>>
    ELSE LET x == CHOOSE y \in S : TRUE IN <<x>> \o SetToSeq(S \ {x})

ListOfSet(l) == SetToSeq(Range(l))

-----------------------------------------------------------------------------
(* Embeddings, the knowledge base and the vector index.                    *)

\* np.zeros(self.dimension)
Zeros == [n \in 1..Dim |-> 0]

\* a vector of length 1.0 along component n
Unit(n) == [m \in 1..Dim |-> IF m = n THEN 10 ELSE 0]

\* What a call of genai.embed_content can do: raise, or return a vector.
EmbedOutcomes == <<[ok |-> FALSE], [ok |-> TRUE, embedding |-> Unit(1)]>>

_get_embedding(outcome) == IF outcome.ok THEN outcome.embedding ELSE Zeros

knowledge_items ==
    <<[content |-> "List comprehensions in Python are more efficient than traditional for loops with append operations because they are optimized at the C level and don't require multiple function calls.",
       category |-> "performance",
       resource_link |-> "https://docs.python.org/3/tutorial/datastructures.html#list-comprehensions"],
      [content |-> "Meaningful variable names improve code readability and maintainability. Single-letter variables should be avoided except for short loops or mathematical contexts.",
       category |-> "readability",
       resource_link |-> "https://pep8.org/#naming-conventions"],
      [content |-> "Comparing boolean values with == True or == False is redundant in Python. The truthiness of the value can be evaluated directly.",
       category |-> "pythonic",
       resource_link |-> "https://pep8.org/#programming-recommendations"],
      [content |-> "Code reviews should focus on improvement rather than criticism. Constructive feedback helps team members learn and grow.",
       category |-> "team_dynamics",
       resource_link |-> "https://google.github.io/eng-practices/review/reviewer/comments.html"],
      [content |-> "Performance optimizations should be considered when dealing with large datasets. Algorithm complexity matters for scalability.",
       category |-> "performance",
       resource_link |-> "https://wiki.python.org/moin/PythonSpeed/PerformanceTips"],
      [content |-> "Filter operations in functional programming can be combined with map operations for cleaner, more readable code.",
       category |-> "functional_programming",
       resource_link |-> "https://docs.python.org/3/howto/functional.html"]>>

KnowledgeItem(item_data, embedding) ==
    [content |-> item_data.content, category |-> item_data.category,
     resource_link |-> item_data.resource_link, embedding |-> embedding]

\* One pass of the loading loop leaves the index as it is: the call
\* self.index.add(...) is inside the comment of line 87.
LoadedIndex(idx, embedding) == idx

RECURSIVE DotUpTo(_, _, _)
DotUpTo(a, b, n) == IF n = 0 THEN 0 ELSE a[n] * b[n] + DotUpTo(a, b, n - 1)

\* inner product, in hundredths
InnerProduct(a, b) == DotUpTo(a, b, Dim)

\* the score faiss gives a result slot it has no vector for (its label is -1)
NEG_FLT_MAX == -2147483647

\* the default k of retrieve_relevant_knowledge
K == 3

\* 0.1, in hundredths
SCORE_THRESHOLD == 10

\* IndexFlatIP.search for one query: k slots [score, label] by decreasing
\* inner product (equal scores by label), labels from 0, and the slots
\* beyond the stored vectors filled with (NEG_FLT_MAX, -1).
IndexSearch(idx, q, k) ==
    LET score(l) == InnerProduct(idx[l + 1], q)
        better(a, b) == score(a) > score(b) \/ (score(a) = score(b) /\ a < b)
        labels == 0..(Len(idx) - 1)
        nth(n) == CHOOSE l \in labels :
                      Cardinality({m \in labels : better(m, l)}) = n - 1
    IN [n \in 1..k |->
           IF n <= Len(idx)
           THEN [score |-> score(nth(n)), label |-> nth(n)]
           ELSE [score |-> NEG_FLT_MAX, label |-> 0 - 1]]

\* the test of the retrieval loop without the score threshold
KeepsWithoutThreshold(kb, slot) == slot.label < Len(kb)

\* the test of the retrieval loop
Keeps(kb, slot) == slot.label < Len(kb) /\ slot.score > SCORE_THRESHOLD

\* retrieve_relevant_knowledge after the embedding call: the items kept,
\* or IndexError when a kept label is outside the knowledge base.
retrieve_relevant_knowledge(kb, idx, q, k) ==
    LET slots == IndexSearch(idx, q, k)
        kept == SelectSeq(slots, LAMBDA slot : Keeps(kb, slot))
    IN IF \E n \in 1..Len(kept) : ~PyInRange(kb, kept[n].label)
       THEN [raised |-> "IndexError", items |-> <<>>]
       ELSE [raised |-> "",
             items |-> [n \in 1..Len(kept) |-> PyGetItem(kb, kept[n].label)]]

-----------------------------------------------------------------------------
(* The Generation Provider and the feedback synthesizer.                   *)

JSONDecodeError == [t |-> "JSONDecodeError"]

\* What a call of model.generate_content followed by response.text can do:
\* raise, or give a text; loads is what json.loads makes of the stripped
\* text: a Python value, or JSONDecodeError.
GenOutcomes ==
    <<[kind |-> "raise"],
      [kind |-> "text",
       text |-> "{\"positive_rephrasing\": \"Nice start!\", \"the_why\": \"Names carry meaning.\", \"suggested_improvement\": \"Rename it.\", \"code_example\": \"total = 1\"}",
       loads |-> PyDict([positive_rephrasing |-> PyStr("Nice start!"),
                         the_why |-> PyStr("Names carry meaning."),
                         suggested_improvement |-> PyStr("Rename it."),
                         code_example |-> PyStr("total = 1")])],
      [kind |-> "text",
       text |-> "{\"positive_rephrasing\": \"Good effort.\", \"resource_links\": [\"https://example.com/guide\"]}",
       loads |-> PyDict([positive_rephrasing |-> PyStr("Good effort."),
                         resource_links |->
                             PyList(<<PyStr("https://example.com/guide")>>)])],
      [kind |-> "text", text |-> "[]", loads |-> PyList(<<>>)],
      [kind |-> "text",
       text |-> "Positive Rephrasing:\nNice work here.\nThe Why:\nClarity matters.\nSuggested Improvement:\nUse a clear name.\n~~~python\ncount = 1\n~~~\n",
       loads |-> JSONDecodeError]>>

None == "<None>"

\* the body of the loop with the fence test put before the header tests
ParseLineFenceFirst(state, raw_line) ==
    LET line == strip(raw_line)
        line_lower == lower(line)
        current_section == state.current_section
    IN IF startswith(line, FENCE)
       THEN [state EXCEPT !.current_section =
                 IF current_section # "code_example" THEN "code_example" ELSE None]
       ELSE IF Contains(line_lower, "positive rephrasing")
       THEN [state EXCEPT !.current_section = "positive_rephrasing"]
       ELSE IF Contains(line_lower, "why")
       THEN [state EXCEPT !.current_section = "the_why"]
       ELSE IF Contains(line_lower, "suggested improvement")
               \/ Contains(line_lower, "improvement")
       THEN [state EXCEPT !.current_section = "suggested_improvement"]
       ELSE IF current_section # None /\ line # ""
       THEN IF current_section \in DOMAIN state.result.v
            THEN [state EXCEPT !.result = DictSet(state.result, current_section,
                     PyStr(state.result.v[current_section].v \o line \o " "))]
            ELSE state
       ELSE state

\* the body of the parser's loop for one line
ParseLine(state, raw_line) ==
    LET line == strip(raw_line)
        line_lower == lower(line)
        current_section == state.current_section
    IN IF Contains(line_lower, "positive rephrasing")
       THEN [state EXCEPT !.current_section = "positive_rephrasing"]
       ELSE IF Contains(line_lower, "why")
       THEN [state EXCEPT !.current_section = "the_why"]
       ELSE IF Contains(line_lower, "suggested improvement")
               \/ Contains(line_lower, "improvement")
       THEN [state EXCEPT !.current_section = "suggested_improvement"]
       ELSE IF startswith(line, FENCE)
       THEN [state EXCEPT !.current_section =
                 IF current_section # "code_example" THEN "code_example" ELSE None]
       ELSE IF current_section # None /\ line # ""
       THEN IF current_section \in DOMAIN state.result.v
            THEN [state EXCEPT !.result = DictSet(state.result, current_section,
                     PyStr(state.result.v[current_section].v \o line \o " "))]
            ELSE state
       ELSE state

RECURSIVE ParseLines(_, _, _)
ParseLines(state, lines, n) ==
    IF n > Len(lines) THEN state
    ELSE ParseLines(ParseLine(state, lines[n]), lines, n + 1)

\* result and current_section as the parser sets them before its loop
ParserStart ==
    [current_section |-> None,
     result |-> PyDict([positive_rephrasing |-> PyStr(""),
                        the_why |-> PyStr(""),
                        suggested_improvement |-> PyStr(""),
                        code_example |-> PyStr(""),
                        resource_links |-> PyList(<<>>)])]

_parse_fallback_response(response_text) ==
    LET lines == split_lines(response_text)
    IN ParseLines(ParserStart, lines, 1).result

\* the dict returned by the handler of `except Exception`
FallbackResponse ==
    PyDict([positive_rephrasing |->
                PyStr("Thanks for sharing your code! There's an opportunity to improve this section."),
            the_why |->
                PyStr("Code improvements help with maintainability and performance."),
            suggested_improvement |->
                PyStr("Consider refactoring this section for better clarity."),
            code_example |-> PyStr("# Improved version would go here"),
            resource_links |-> PyList(<<>>)])

\* json.loads(response.text.strip()), and the parser on JSONDecodeError
ParseResponse(outcome) ==
    IF outcome.loads = JSONDecodeError
    THEN _parse_fallback_response(outcome.text)
    ELSE outcome.loads

\* ParseResponse of every outcome that gives a text, computed once
ParsedResponses ==
    [o \in 1..Len(GenOutcomes) |->
        IF GenOutcomes[o].kind = "raise" THEN PyNone
        ELSE ParseResponse(GenOutcomes[o])]

\* the synthesizer with an empty result in place of the fixed fallback
GenerateWithEmptyFallback(o, knowledge) ==
    LET resource_links == [n \in 1..Len(knowledge) |->
                              PyStr(knowledge[n].resource_link)]
        empty == _parse_fallback_response("")
    IN IF GenOutcomes[o].kind = "raise" THEN empty
       ELSE IF resource_links # <<>>
       THEN IF ParsedResponses[o].t = "dict"
            THEN DictSet(ParsedResponses[o], "resource_links",
                         PyList(ListOfSet(resource_links)))
            ELSE empty
       ELSE ParsedResponses[o]

\* _generate_empathetic_response from the provider call on, for the o-th
\* outcome of the call: the value it returns. Assigning
\* result["resource_links"] on a value that is no dict raises TypeError
\* inside the try, which gives the fallback.
_generate_empathetic_response(o, knowledge) ==
    LET resource_links == [n \in 1..Len(knowledge) |->
                              PyStr(knowledge[n].resource_link)]
    IN IF GenOutcomes[o].kind = "raise" THEN FallbackResponse
       ELSE IF resource_links # <<>>
       THEN IF ParsedResponses[o].t = "dict"
            THEN DictSet(ParsedResponses[o], "resource_links",
                         PyList(ListOfSet(resource_links)))
            ELSE FallbackResponse
       ELSE ParsedResponses[o]

FallbackSummary ==
    "Great work on submitting your code for review! The feedback provided will help you write even better code in the future. Keep up the excellent learning attitude!"

\* _generate_holistic_summary from the provider call on
_generate_holistic_summary(outcome) ==
    IF outcome.kind = "raise" THEN FallbackSummary ELSE strip(outcome.text)

-----------------------------------------------------------------------------
(* The report assembler.                                                   *)

ERROR_MESSAGE == "Error: Missing code snippet or review comments."

\* the validation with `and` in place of `or`
MissingInputBoth(code_snippet, review_comments) ==
    code_snippet = "" /\ review_comments = <<>>

\* not code_snippet or not review_comments
MissingInput(code_snippet, review_comments) ==
    code_snippet = "" \/ review_comments = <<>>

\* the report before the first section
ReportHead(code_snippet) ==
    "# Empathetic Code Review Report\n\n"
    \o "## Code Under Review\n\n~~~python\n" \o code_snippet \o "\n~~~\n\n"

\* the header of a section, numbered from 0
SectionHeaderFromZero(n, comment) ==
    "### Analysis of Comment " \o ToString(n - 1) \o ": \"" \o comment \o "\"\n\n"

\* the header of the section of the n-th comment (enumerate(..., 1))
SectionHeader(n, comment) ==
    "### Analysis of Comment " \o ToString(n) \o ": \"" \o comment \o "\"\n\n"

RECURSIVE LinkLines(_, _)
LinkLines(links, n) ==
    IF n > Len(links) THEN ""
    ELSE "- [" \o PyFormat(links[n]) \o "](" \o PyFormat(links[n]) \o ")\n"
         \o LinkLines(links, n + 1)

\* what `for link in x` goes through: the elements of a list, the
\* characters of a str
Iterable(x) == x.t \in {"list", "str"}
Elements(x) ==
    IF x.t = "list" THEN x.v ELSE [n \in 1..Len(x.v) |-> PyStr(CharAt(x.v, n))]

\* The section of the n-th comment, or the exception its rendering raises:
\* .get on a response that is no dict, the loop over links that cannot be
\* iterated.
RenderSection(n, comment, response) ==
    IF response.t # "dict"
    THEN [raised |-> "AttributeError", text |-> ""]
    ELSE LET code_example == DictGet(response, "code_example", PyNone)
             links == DictGet(response, "resource_links", PyNone)
             fields ==
                 SectionHeader(n, comment)
                 \o "**Positive Rephrasing:** "
                 \o PyFormat(DictGet(response, "positive_rephrasing", PyStr("")))
                 \o "\n\n"
                 \o "**The 'Why':** "
                 \o PyFormat(DictGet(response, "the_why", PyStr("")))
                 \o "\n\n"
                 \o "**Suggested Improvement:**\n"
                 \o PyFormat(DictGet(response, "suggested_improvement", PyStr("")))
                 \o "\n\n"
             code_block ==
                 IF Truthy(code_example)
                 THEN "~~~python\n" \o PyFormat(code_example) \o "\n~~~\n\n"
                 ELSE ""
         IN IF Truthy(links) /\ ~Iterable(links)
            THEN [raised |-> "TypeError", text |-> ""]
            ELSE [raised |-> "",
                  text |-> fields \o code_block
                      \o (IF Truthy(links)
                          THEN "**Additional Resources:**\n"
                               \o LinkLines(Elements(links), 1) \o "\n"
                          ELSE "")
                      \o "---\n\n"]

\* the end of the report (the rocket character that closes it is left out)
ReportTail(summary) ==
    "## Overall Summary\n\n" \o summary \o "\n\n"
    \o "*Remember: Every piece of feedback is an opportunity to grow. Keep coding and keep learning!* "

-----------------------------------------------------------------------------
(* The requests of the model.                                              *)

CodeSet == {"", "x == True"}
CommentSet == {"u is a BAD name", "ok"}
QuerySet == CommentSet \cup {""}
CommentLists == UNION {[1..n -> CommentSet] : n \in 0..MaxComments}

\* the text main() takes for a key nobody has filled in
PLACEHOLDER_KEY == "your_actual_gemini_api_key_here"

PlaceholderEnv == [GEMINI_API_KEY |-> PLACEHOLDER_KEY]

\* The environment after load_dotenv(): without the variable, with an empty
\* one, with the placeholder, with a key. For app.py every non-empty value
\* is a key, so there the placeholder would be one more "key".
EnvChoices ==
    <<[name \in {} |-> ""], [GEMINI_API_KEY |-> ""], PlaceholderEnv,
      [GEMINI_API_KEY |-> "key"]>>

\* os.getenv(name)
getenv(name) == IF name \in DOMAIN env THEN PyStr(env[name]) ELSE PyNone

NoResult == [kind |-> "none"]
NoResponse == [status |-> 0]

\* the fallback parser is not being looked at
NoParser == [at |-> "off"]

\* the example input of main()
sample_input ==
    [code_snippet |-> "def get_active_users(users):\n    results = []\n    for u in users:\n        if u.is_active == True and u.profile_complete == True:\n            results.append(u)\n    return results",
     review_comments |->
         <<"This is inefficient. Don't loop twice conceptually.",
           "Variable 'u' is a bad name.",
           "Boolean comparison '== True' is redundant.">>]

-----------------------------------------------------------------------------
(* Startup.                                                                *)

Init ==
    /\ entry \in {"app", "main"}
    /\ \E n \in 1..Len(EnvChoices) :
           /\ env = EnvChoices[n]
           /\ entry = "app" => env # PlaceholderEnv
    /\ phase = "starting"
    /\ constructions = 0
    /\ load_pos = 0
    /\ knowledge_base = <<>>
    /\ index = <<>>
    /\ pc = "idle"
    /\ endpoint = ""
    /\ input_data = [code_snippet |-> "", review_comments |-> <<>>]
    /\ i = 0
    /\ query_embedding = Zeros
    /\ relevant_knowledge = <<>>
    /\ severity = ""
    /\ markdown_report = ""
    /\ all_feedback = <<>>
    /\ result = NoResult
    /\ http_response = NoResponse
    /\ calls = <<>>
    /\ sev_comment = ""
    /\ sev_result = ""
    /\ startup_error = ""
    /\ report_file = None
    /\ parser = NoParser

process_vars == <<env, entry>>

output_vars == <<startup_error, report_file>>

request_vars ==
    <<pc, endpoint, input_data, i, query_embedding, relevant_knowledge,
      severity, markdown_report, all_feedback, result, http_response, calls>>

startup_vars == <<phase, constructions, load_pos, knowledge_base, index>>

\* the key test that lets every value through but the empty string
KeyMissingOnlyWhenEmpty == getenv("GEMINI_API_KEY") = PyStr("")

\* `not API_KEY` of startup_event, and
\* `not API_KEY or API_KEY == "your_actual_gemini_api_key_here"` of main()
KeyMissing ==
    LET API_KEY == getenv("GEMINI_API_KEY")
    IN IF entry = "app"
       THEN ~Truthy(API_KEY)
       ELSE ~Truthy(API_KEY) \/ API_KEY = PyStr(PLACEHOLDER_KEY)

\* what tells of the missing key: the RuntimeError of startup_event, with
\* which the server gives up and exits; the first line main() prints
\* before it returns
KeyMissingMessage ==
    IF entry = "app"
    THEN "RuntimeError: GEMINI_API_KEY environment variable not set"
    ELSE " GEMINI_API_KEY not found!"

\* startup_event, and main() down to the reviewer: without a key the
\* program says so and goes no further; with one, EmpathyRAGSystem.__init__
\* makes the empty index and knowledge base and the loading begins.
Startup ==
    /\ phase = "starting"
    /\ IF KeyMissing
       THEN /\ phase' = "failed"
            /\ startup_error' = KeyMissingMessage
            /\ UNCHANGED <<constructions, load_pos, knowledge_base, index>>
       ELSE /\ phase' = "loading"
            /\ constructions' = constructions + 1
            /\ index' = <<>>
            /\ knowledge_base' = <<>>
            /\ load_pos' = 1
            /\ UNCHANGED startup_error
    /\ UNCHANGED <<process_vars, report_file, parser,
                   request_vars, sev_comment, sev_result>>

\* the embedding calls of the loading that failed so far: each left the
\* zero vector in its item, and no call that succeeds returns that vector
LoadFailures ==
    Cardinality({n \in 1..Len(knowledge_base) : knowledge_base[n].embedding = Zeros})

\* one pass of the loop of _initialize_knowledge_base; the Embedding
\* Provider fails at most MaxLoadFailures of the calls of the loading
LoadItem ==
    /\ phase = "loading"
    /\ load_pos <= Len(knowledge_items)
    /\ \E o \in 1..Len(EmbedOutcomes) :
         LET embedding == _get_embedding(EmbedOutcomes[o])
         IN /\ EmbedOutcomes[o].ok \/ LoadFailures < MaxLoadFailures
            /\ knowledge_base' =
                   Append(knowledge_base,
                          KnowledgeItem(knowledge_items[load_pos], embedding))
            /\ index' = LoadedIndex(index, embedding)
    /\ load_pos' = load_pos + 1
    /\ UNCHANGED <<process_vars, output_vars, parser,
                   phase, constructions, request_vars, sev_comment, sev_result>>

\* the loop is over: app.state.reviewer is set and the server serves; in
\* main() the reviewer is made and main() goes on
FinishStartup ==
    /\ phase = "loading"
    /\ load_pos > Len(knowledge_items)
    /\ phase' = IF entry = "app" THEN "serving" ELSE "main"
    /\ UNCHANGED <<process_vars, output_vars, parser,
                   constructions, load_pos, knowledge_base, index,
                   request_vars, sev_comment, sev_result>>

-----------------------------------------------------------------------------
(* The handlers. A handler is an `async def` that never awaits, so the     *)
(* event loop runs it from its first line to its answer before it takes    *)
(* the next request: one request is in progress at a time. Its steps are   *)
(* cut at the provider calls.                                              *)

\* the handler's first lines with a reviewer made anew for the request,
\* its knowledge base loaded while the Embedding Provider is down
AcceptWithNewReviewer(path, code_snippet, review_comments) ==
    /\ phase = "serving"
    /\ pc = "idle"
    /\ pc' = "called"
    /\ endpoint' = path
    /\ input_data' = [code_snippet |-> code_snippet,
                      review_comments |-> review_comments]
    /\ i' = 0
    /\ query_embedding' = Zeros
    /\ relevant_knowledge' = <<>>
    /\ severity' = ""
    /\ markdown_report' = ""
    /\ all_feedback' = <<>>
    /\ result' = NoResult
    /\ http_response' = NoResponse
    /\ calls' = <<>>
    /\ constructions' = constructions + 1
    /\ index' = <<>>
    /\ knowledge_base' = [n \in 1..Len(knowledge_items) |->
                              KnowledgeItem(knowledge_items[n], Zeros)]
    /\ UNCHANGED <<process_vars, output_vars, parser,
                   phase, load_pos, sev_comment, sev_result>>

\* the handler's first lines: input_data is made and process_review called
Accept(path, code_snippet, review_comments) ==
    /\ phase = "serving"
    /\ pc = "idle"
    /\ pc' = "called"
    /\ endpoint' = path
    /\ input_data' = [code_snippet |-> code_snippet,
                      review_comments |-> review_comments]
    /\ i' = 0
    /\ query_embedding' = Zeros
    /\ relevant_knowledge' = <<>>
    /\ severity' = ""
    /\ markdown_report' = ""
    /\ all_feedback' = <<>>
    /\ result' = NoResult
    /\ http_response' = NoResponse
    /\ calls' = <<>>
    /\ UNCHANGED <<process_vars, output_vars, parser,
                   startup_vars, sev_comment, sev_result>>

\* main() from the reviewer to the call of process_review on its example
MainProcess ==
    /\ phase = "main"
    /\ pc = "idle"
    /\ pc' = "called"
    /\ input_data' = sample_input
    /\ UNCHANGED <<process_vars, output_vars, parser, startup_vars, endpoint,
                   i, query_embedding, relevant_knowledge, severity,
                   markdown_report, all_feedback, result, http_response,
                   calls, sev_comment, sev_result>>

\* main() from the return of process_review on: the report is printed and
\* written to the file; what process_review raised ends main() before that
MainFinish ==
    /\ phase = "main"
    /\ pc \in {"returned", "raised"}
    /\ pc' = "exited"
    /\ phase' = "exited"
    /\ report_file' = IF result.kind = "return" THEN result.value
                      ELSE report_file
    /\ UNCHANGED <<process_vars, startup_error, parser, constructions,
                   load_pos, knowledge_base, index, endpoint, input_data, i,
                   query_embedding, relevant_knowledge, severity,
                   markdown_report, all_feedback, result, http_response,
                   calls, sev_comment, sev_result>>

\* POST /review up to the call of process_review
ReceiveReview ==
    \E code_snippet \in CodeSet, review_comments \in CommentLists :
        Accept("/review", code_snippet, review_comments)

\* POST /analyze up to the call of process_review
ReceiveAnalyze ==
    \E code_snippet \in CodeSet, query \in QuerySet :
        Accept("/analyze", code_snippet, <<query>>)

\* GET /health
Health ==
    /\ phase = "serving"
    /\ pc = "idle"
    /\ pc' = "responded"
    /\ endpoint' = "/health"
    /\ http_response' = [status |-> 200, body |-> [status |-> "healthy",
                                                    version |-> "1.0.0"]]
    /\ UNCHANGED <<process_vars, output_vars, parser,
                   startup_vars, input_data, i, query_embedding,
                   relevant_knowledge, severity, markdown_report, all_feedback,
                   result, calls, sev_comment, sev_result>>

\* process_review down to the loop
PR_Validate ==
    /\ pc = "called"
    /\ IF MissingInput(input_data.code_snippet, input_data.review_comments)
       THEN /\ result' = [kind |-> "return", value |-> ERROR_MESSAGE]
            /\ pc' = "returned"
            /\ UNCHANGED <<markdown_report, i>>
       ELSE /\ markdown_report' = ReportHead(input_data.code_snippet)
            /\ i' = 1
            /\ pc' = "retrieve"
            /\ UNCHANGED result
    /\ UNCHANGED <<process_vars, output_vars, parser,
                   startup_vars, endpoint, input_data, query_embedding,
                   relevant_knowledge, severity, all_feedback, http_response,
                   calls, sev_comment, sev_result>>

\* the loop body down to the generation call: retrieve_relevant_knowledge
\* with its embedding call, then _determine_severity
PR_Retrieve ==
    /\ pc = "retrieve"
    /\ \E o \in 1..Len(EmbedOutcomes) :
         LET q == _get_embedding(EmbedOutcomes[o])
             found == retrieve_relevant_knowledge(knowledge_base, index, q, K)
         IN /\ query_embedding' = q
            /\ calls' = Append(calls, [api |-> "embed_content", n |-> i])
            /\ IF found.raised # ""
               THEN /\ result' = [kind |-> "raise", exc |-> found.raised]
                    /\ pc' = "raised"
                    /\ UNCHANGED <<relevant_knowledge, severity>>
               ELSE /\ relevant_knowledge' = found.items
                    /\ severity' = _determine_severity(input_data.review_comments[i])
                    /\ pc' = "generate"
                    /\ UNCHANGED result
    /\ UNCHANGED <<process_vars, output_vars, parser,
                   startup_vars, endpoint, input_data, i, markdown_report,
                   all_feedback, http_response, sev_comment, sev_result>>

\* the rest of the loop body: _generate_empathetic_response with its
\* generation call, then the section
PR_Generate ==
    /\ pc = "generate"
    /\ \E o \in 1..Len(GenOutcomes) :
         LET response == _generate_empathetic_response(o, relevant_knowledge)
             section == RenderSection(i, input_data.review_comments[i], response)
         IN /\ calls' = Append(calls, [api |-> "generate_content", n |-> i,
                                       raised |-> GenOutcomes[o].kind = "raise"])
            /\ IF section.raised # ""
               THEN /\ result' = [kind |-> "raise", exc |-> section.raised]
                    /\ pc' = "raised"
                    /\ UNCHANGED <<markdown_report, all_feedback, i>>
               ELSE /\ markdown_report' = markdown_report \o section.text
                    /\ all_feedback' = Append(all_feedback, response)
                    /\ i' = i + 1
                    /\ pc' = IF i < Len(input_data.review_comments)
                             THEN "retrieve" ELSE "summary"
                    /\ UNCHANGED result
    /\ query_embedding' = Zeros
    /\ UNCHANGED <<process_vars, output_vars, parser,
                   startup_vars, endpoint, input_data, relevant_knowledge,
                   severity, http_response, sev_comment, sev_result>>

\* after the loop: _generate_holistic_summary with its generation call,
\* then the end of the report and the return
PR_Summary ==
    /\ pc = "summary"
    /\ \E o \in 1..Len(GenOutcomes) :
         LET summary == _generate_holistic_summary(GenOutcomes[o])
         IN /\ calls' = Append(calls, [api |-> "generate_content", n |-> 0,
                                       raised |-> GenOutcomes[o].kind = "raise"])
            /\ markdown_report' = markdown_report \o ReportTail(summary)
            /\ result' = [kind |-> "return",
                          value |-> markdown_report \o ReportTail(summary)]
    /\ pc' = "returned"
    /\ UNCHANGED <<process_vars, output_vars, parser,
                   startup_vars, endpoint, input_data, i, query_embedding,
                   relevant_knowledge, severity, all_feedback, http_response,
                   sev_comment, sev_result>>

\* str(e) of the exceptions of the model
ExceptionText(exc) ==
    CASE exc = "AttributeError" -> "'list' object has no attribute 'get'"
      [] exc = "TypeError" -> "'int' object is not iterable"
      [] OTHER -> "list index out of range"

\* the handler from the return of process_review on: 200 with success=True
\* for whatever string it returned, 500 for whatever it raised
Respond ==
    /\ phase = "serving"
    /\ pc \in {"returned", "raised"}
    /\ pc' = "responded"
    /\ http_response' =
           IF result.kind = "return"
           THEN [status |-> 200,
                 body |-> IF endpoint = "/review"
                          THEN [markdown_report |-> result.value,
                                success |-> TRUE, message |-> ""]
                          ELSE [analysis |-> result.value,
                                success |-> TRUE, message |-> ""]]
           ELSE [status |-> 500,
                 detail |-> (IF endpoint = "/review"
                             THEN "Error generating review: "
                             ELSE "Error analyzing code: ")
                            \o ExceptionText(result.exc)]
    /\ UNCHANGED <<process_vars, output_vars, parser,
                   startup_vars, endpoint, input_data, i, query_embedding,
                   relevant_knowledge, severity, markdown_report, all_feedback,
                   result, calls, sev_comment, sev_result>>

\* the answer is sent: nothing of the request is kept, and the event loop
\* takes the next request
Close ==
    /\ pc = "responded"
    /\ pc' = "idle"
    /\ endpoint' = ""
    /\ input_data' = [code_snippet |-> "", review_comments |-> <<>>]
    /\ i' = 0
    /\ markdown_report' = ""
    /\ all_feedback' = <<>>
    /\ result' = NoResult
    /\ http_response' = NoResponse
    /\ calls' = <<>>
    /\ relevant_knowledge' = <<>>
    /\ severity' = ""
    /\ UNCHANGED <<process_vars, output_vars, parser,
                   startup_vars, query_embedding, sev_comment, sev_result>>

Next ==
    \/ Startup
    \/ LoadItem
    \/ FinishStartup
    \/ MainProcess
    \/ MainFinish
    \/ ReceiveReview
    \/ ReceiveAnalyze
    \/ Health
    \/ PR_Validate
    \/ PR_Retrieve
    \/ PR_Generate
    \/ PR_Summary
    \/ Respond
    \/ Close

Spec == Init /\ [][Next]_vars

-----------------------------------------------------------------------------
(* The severity classifier taken alone, on comments put together from      *)
(* pieces: indicator words in both cases, halves of words, and filler.     *)

SevPieces ==
    {"bad", "BAD", "Wrong", "terrible", "Awful", "stupid", "inefficient",
     "should", "Could", "consider", "Might", "ba", "d", "sh", "ould", " ",
     "ok"}

RECURSIVE Join(_, _)
Join(pieces, n) == IF n = 0 THEN "" ELSE Join(pieces, n - 1) \o pieces[n]

SevInputs ==
    {Join(pieces, Len(pieces)) :
        pieces \in UNION {[1..n -> SevPieces] : n \in 0..MaxPieces}}

SevInit ==
    /\ env = EnvChoices[Len(EnvChoices)]
    /\ entry = "app"
    /\ phase = "starting"
    /\ constructions = 0
    /\ load_pos = 0
    /\ knowledge_base = <<>>
    /\ index = <<>>
    /\ pc = "idle"
    /\ endpoint = ""
    /\ input_data = [code_snippet |-> "", review_comments |-> <<>>]
    /\ i = 0
    /\ query_embedding = Zeros
    /\ relevant_knowledge = <<>>
    /\ severity = ""
    /\ markdown_report = ""
    /\ all_feedback = <<>>
    /\ result = NoResult
    /\ http_response = NoResponse
    /\ calls = <<>>
    /\ sev_comment \in SevInputs
    /\ sev_result = ""
    /\ startup_error = ""
    /\ report_file = None
    /\ parser = NoParser

Classify ==
    /\ sev_result = ""
    /\ sev_result' = _determine_severity(sev_comment)
    /\ UNCHANGED <<process_vars, output_vars, parser,
                   startup_vars, request_vars, sev_comment>>

SevNext == Classify

SpecSeverity == SevInit /\ [][SevNext]_vars

-----------------------------------------------------------------------------
(* The fallback parser taken alone, line by line, on texts put together    *)
(* from lines: headers in both cases, fences with and without a header     *)
(* word and with leading blanks, text, empty and blank lines.              *)

ParserLineSet ==
    {"Positive Rephrasing:", "The WHY:", "  Suggested improvement",
     "Why positive rephrasing", "Nice work.  ", "~~~python", "  ~~~",
     "~~~ why", "", "   "}

RECURSIVE JoinLines(_, _)
JoinLines(lines, n) ==
    IF n = 0 THEN ""
    ELSE IF n = 1 THEN lines[1]
    ELSE JoinLines(lines, n - 1) \o "\n" \o lines[n]

ParserTexts ==
    {JoinLines(lines, Len(lines)) :
        lines \in UNION {[1..n -> ParserLineSet] : n \in 0..MaxParseLines}}

ParserInit ==
    /\ env = EnvChoices[Len(EnvChoices)]
    /\ entry = "app"
    /\ phase = "starting"
    /\ constructions = 0
    /\ load_pos = 0
    /\ knowledge_base = <<>>
    /\ index = <<>>
    /\ pc = "idle"
    /\ endpoint = ""
    /\ input_data = [code_snippet |-> "", review_comments |-> <<>>]
    /\ i = 0
    /\ query_embedding = Zeros
    /\ relevant_knowledge = <<>>
    /\ severity = ""
    /\ markdown_report = ""
    /\ all_feedback = <<>>
    /\ result = NoResult
    /\ http_response = NoResponse
    /\ calls = <<>>
    /\ sev_comment = ""
    /\ sev_result = ""
    /\ startup_error = ""
    /\ report_file = None
    /\ \E response_text \in ParserTexts :
           parser = [at |-> "called", response_text |-> response_text]

parser_others ==
    <<process_vars, output_vars, startup_vars, request_vars, sev_comment,
      sev_result>>

\* the parser down to its loop: result, lines, current_section
P_Begin ==
    /\ parser.at = "called"
    /\ parser' = [at |-> "loop",
                  response_text |-> parser.response_text,
                  lines |-> split_lines(parser.response_text),
                  pos |-> 0,
                  before |-> ParserStart,
                  state |-> ParserStart]
    /\ UNCHANGED parser_others

\* one pass of the loop: pos lines are done, before is what current_section
\* and result were when the last of them was taken
P_Line ==
    /\ parser.at = "loop"
    /\ parser.pos < Len(parser.lines)
    /\ parser' = [parser EXCEPT
                      !.pos = parser.pos + 1,
                      !.before = parser.state,
                      !.state = ParseLine(parser.state,
                                          parser.lines[parser.pos + 1])]
    /\ UNCHANGED parser_others

\* the loop is over: result is returned
P_Return ==
    /\ parser.at = "loop"
    /\ parser.pos = Len(parser.lines)
    /\ parser' = [parser EXCEPT !.at = "returned"]
    /\ UNCHANGED parser_others

ParserNext ==
    \/ P_Begin
    \/ P_Line
    \/ P_Return

SpecParser == ParserInit /\ [][ParserNext]_vars

-----------------------------------------------------------------------------
(* The claims.                                                             *)

InputMissing ==
    input_data.code_snippet = "" \/ input_data.review_comments = <<>>

InProcessReview == pc \in {"called", "retrieve", "generate", "summary",
                           "returned", "raised"}

\* C1: for a request with a non-empty code snippet and a non-empty comment
\* list, whatever the providers do (raise, give text that is no JSON, give
\* JSON of any shape), process_review does not raise: it returns a report.
C1_ProcessReviewNeverRaises ==
    (InProcessReview /\ ~InputMissing) =>
        /\ pc # "raised"
        /\ result.kind # "raise"

\* C2: called with an empty code snippet or an empty comment list,
\* process_review returns exactly the error message, as a value, and from
\* the call to the return no provider call is made.
C2_MissingInputReported ==
    (InProcessReview /\ InputMissing) =>
        /\ calls = <<>>
        /\ pc \in {"called", "returned"}
        /\ pc = "returned" =>
               result = [kind |-> "return",
                         value |-> "Error: Missing code snippet or review comments."]

\* C2's case: process_review has returned for an empty code snippet with a
\* comment to review
C2_Witness ==
    /\ pc = "returned"
    /\ input_data.code_snippet = ""
    /\ input_data.review_comments # <<>>
    /\ result.kind = "return"
    /\ calls = <<>>

\* C3: a POST /review whose code_snippet or review_comments is empty is
\* answered with a reported error, a status that is not 2xx; never with a
\* 2xx answer.
C3_MissingInputIsNot2xx ==
    (pc = "responded" /\ endpoint = "/review" /\ InputMissing) =>
        ~(http_response.status \in 200..299)

\* where the lines of s begin
LineStarts(s) == {1} \cup {p + 1 : p \in {q \in 1..Len(s) : CharAt(s, q) = "\n"}}

\* the lines of s that begin with w, by the place where they begin, among
\* the line starts of s
LinesStarting(s, starts, w) ==
    {p \in starts : SubSeq(s, p, p + Len(w) - 1) = w}

\* the n-th smallest element of a set of numbers
NthOf(S, n) == CHOOSE p \in S : Cardinality({q \in S : q < p}) = n - 1

ReturnedReport == pc = "returned" /\ result.kind = "return" /\ ~InputMissing

\* C4: the report of a request with N >= 1 comments has exactly N
\* per-comment sections (lines that begin a section of that level); the n-th of them is numbered n and its header
\* quotes the n-th input comment; exactly one Overall Summary section
\* follows them.
C4_SectionsInInputOrder ==
    ReturnedReport =>
        LET report == result.value
            comments == input_data.review_comments
            line_starts == LineStarts(report)
            starts == LinesStarting(report, line_starts,
                                    "### Analysis of Comment ")
            summaries == LinesStarting(report, line_starts,
                                       "## Overall Summary\n\n")
        IN /\ Cardinality(starts) = Len(comments)
           /\ \A n \in 1..Len(comments) :
                  LET header == "### Analysis of Comment " \o ToString(n)
                                \o ": \"" \o comments[n] \o "\"\n\n"
                      p == NthOf(starts, n)
                  IN SubSeq(report, p, p + Len(header) - 1) = header
           /\ Cardinality(summaries) = 1
           /\ \A p \in starts : \A q \in summaries : p < q

\* C4's case: a report was returned for two different comments
C4_Witness ==
    /\ ReturnedReport
    /\ Len(input_data.review_comments) = 2
    /\ input_data.review_comments[1] # input_data.review_comments[2]

\* C5: in every state, during and after the loading, the index holds as
\* many vectors as the knowledge base holds items, and its n-th vector is
\* the embedding of the n-th item.
C5_IndexAlignedWithKnowledgeBase ==
    /\ Len(index) = Len(knowledge_base)
    /\ \A n \in 1..Len(knowledge_base) :
           n <= Len(index) => index[n] = knowledge_base[n].embedding

\* C6: a retrieval returns at most k items, each an item of the knowledge
\* base whose inner product with the query is above 0.1; so it is when the
\* index holds fewer than k vectors, and for the zero vector of a failed
\* query embedding the result is empty.
C6_RetrievalBounded ==
    pc = "generate" =>
        /\ Len(relevant_knowledge) <= 3
        /\ \A n \in 1..Len(relevant_knowledge) :
               /\ \E m \in 1..Len(knowledge_base) :
                      knowledge_base[m] = relevant_knowledge[n]
               /\ InnerProduct(query_embedding, relevant_knowledge[n].embedding) > 10
        /\ query_embedding = Zeros => relevant_knowledge = <<>>

\* C6's case: a retrieval is over, on an index of fewer than k vectors, for
\* a query whose embedding is the zero vector
C6_Witness ==
    /\ pc = "generate"
    /\ Len(index) < 3
    /\ query_embedding = Zeros
    /\ calls # <<>>
    /\ relevant_knowledge = <<>>

GenerationCalls == SelectSeq(calls, LAMBDA c : c.api = "generate_content")

AllGenerationCallsFailed ==
    \A n \in 1..Len(GenerationCalls) : GenerationCalls[n].raised

\* C7: when every generation call fails, the synthesizer returns for each
\* comment the fixed fallback (four fixed texts, none empty, and no
\* resource link); the section of the comment has the comment in its header
\* and the fallback positive_rephrasing and the_why texts; the summary
\* section has the fixed fallback sentence.
C7_FallbackOnGenerationFailure ==
    (InProcessReview /\ AllGenerationCallsFailed) =>
        /\ \A n \in 1..Len(all_feedback) :
               /\ all_feedback[n].t = "dict"
               /\ DOMAIN all_feedback[n].v =
                      {"positive_rephrasing", "the_why", "suggested_improvement",
                       "code_example", "resource_links"}
               /\ all_feedback[n].v["positive_rephrasing"] =
                      PyStr("Thanks for sharing your code! There's an opportunity to improve this section.")
               /\ all_feedback[n].v["the_why"] =
                      PyStr("Code improvements help with maintainability and performance.")
               /\ all_feedback[n].v["suggested_improvement"] =
                      PyStr("Consider refactoring this section for better clarity.")
               /\ all_feedback[n].v["code_example"] =
                      PyStr("# Improved version would go here")
               /\ all_feedback[n].v["resource_links"] = PyList(<<>>)
               /\ Contains(markdown_report,
                      "### Analysis of Comment " \o ToString(n) \o ": \""
                      \o input_data.review_comments[n] \o "\"\n\n"
                      \o "**Positive Rephrasing:** Thanks for sharing your code! There's an opportunity to improve this section.\n\n"
                      \o "**The 'Why':** Code improvements help with maintainability and performance.\n\n")
        /\ ReturnedReport =>
               Contains(result.value,
                   "## Overall Summary\n\nGreat work on submitting your code for review! The feedback provided will help you write even better code in the future. Keep up the excellent learning attitude!\n\n")

\* C7's case: a report was returned for two comments though every
\* generation call failed
C7_Witness ==
    /\ ReturnedReport
    /\ AllGenerationCallsFailed
    /\ Len(GenerationCalls) = 3
    /\ Len(all_feedback) = 2

\* the links of a result: those under resource_links, none without the key
LinksOf(response) ==
    IF response.t = "dict" /\ "resource_links" \in DOMAIN response.v
       /\ response.v["resource_links"].t = "list"
    THEN response.v["resource_links"].v
    ELSE <<>>

\* C8: when the generation call gave a response, on either parse path, the
\* resource_links of the result are the distinct links of the items
\* retrieved for the comment, each once, and no other link.
C8_LinksAreRetrievedLinks ==
    (pc \in {"retrieve", "summary"} /\ all_feedback # <<>>
     /\ ~calls[Len(calls)].raised) =>
        LET links == LinksOf(all_feedback[Len(all_feedback)])
            retrieved == {PyStr(relevant_knowledge[n].resource_link) :
                              n \in 1..Len(relevant_knowledge)}
        IN /\ Range(links) = retrieved
           /\ Len(links) = Cardinality(retrieved)

\* text has w in it at some place, letter case apart
HasWord(text, w) ==
    \E p \in 1..(Len(text) - Len(w) + 1) :
        \A j \in 1..Len(w) : LowerChar(CharAt(text, p + j - 1)) = CharAt(w, j)

\* C9: the severity is harsh for every comment that has, letter case
\* apart, one of bad, wrong, terrible, awful, stupid, inefficient in it,
\* also when it has a moderate word too; otherwise moderate when it has one
\* of should, could, consider, might; otherwise neutral.
C9_SeverityByKeywords ==
    sev_result # "" =>
        sev_result =
            IF \E w \in {"bad", "wrong", "terrible", "awful", "stupid",
                         "inefficient"} : HasWord(sev_comment, w)
            THEN "harsh"
            ELSE IF \E w \in {"should", "could", "consider", "might"} :
                        HasWord(sev_comment, w)
            THEN "moderate"
            ELSE "neutral"

\* C9's case: a comment with capital letters that has a harsh word and a
\* moderate word was classified harsh
C9_Witness ==
    /\ sev_result = "harsh"
    /\ sev_comment # lower(sev_comment)
    /\ \E w \in {"should", "could", "consider", "might"} : HasWord(sev_comment, w)

\* C10: the knowledge base and the index are constructed once, during the
\* startup and before any request is handled; after that no step of any
\* request changes them or constructs them again.
C10_ConstructedOnceThenFrozen ==
    /\ [](/\ constructions <= 1
          /\ pc # "idle" => (phase \in {"serving", "main", "exited"}
                             /\ constructions = 1)
          /\ phase = "serving" =>
                 (constructions = 1 /\ Len(knowledge_base) = Len(knowledge_items)))
    /\ [][phase = "serving" =>
              /\ knowledge_base' = knowledge_base
              /\ index' = index
              /\ constructions' = constructions
              /\ phase' = "serving"]_vars

\* C10's case: a /analyze request was handled to its answer by the server,
\* which serves with the one knowledge base the startup constructed
C10_Witness ==
    /\ phase = "serving"
    /\ constructions = 1
    /\ pc = "responded"
    /\ endpoint = "/analyze"
    /\ http_response.status = 200

KeyAbsent == getenv("GEMINI_API_KEY") = PyNone

\* C11: when GEMINI_API_KEY is absent from the environment the program does
\* nothing but give up with a message that names the variable: it never
\* serves, no reviewer is constructed, no provider call is made, neither
\* by the loading nor for a request, and no request is taken or answered.
C11_NoKeyNoService ==
    KeyAbsent =>
        /\ phase \in {"starting", "failed"}
        /\ phase = "failed" => Contains(startup_error, "GEMINI_API_KEY")
        /\ constructions = 0
        /\ load_pos = 0
        /\ knowledge_base = <<>>
        /\ calls = <<>>
        /\ pc = "idle"
        /\ result = NoResult
        /\ http_response = NoResponse
        /\ report_file = None

\* C11's case: the server was started without the variable and its startup
\* has ended with RuntimeError
C11_Witness ==
    /\ KeyAbsent
    /\ entry = "app"
    /\ phase = "failed"
    /\ startup_error = "RuntimeError: GEMINI_API_KEY environment variable not set"

\* the p-th provider call of a request with N comments, were each comment
\* to have its embedding call and then its generation call, and the
\* summary its generation call after the last of them
ExpectedCall(p, N) ==
    IF p = 2 * N + 1 THEN [api |-> "generate_content", n |-> 0]
    ELSE IF p % 2 = 1 THEN [api |-> "embed_content", n |-> (p + 1) \div 2]
    ELSE [api |-> "generate_content", n |-> p \div 2]

\* the calls made so far are the first ones of that order
CallsInOrder ==
    \A p \in 1..Len(calls) :
        /\ p <= 2 * Len(input_data.review_comments) + 1
        /\ [api |-> calls[p].api, n |-> calls[p].n]
               = ExpectedCall(p, Len(input_data.review_comments))

ProcessReviewOver == pc \in {"returned", "raised"}

\* C12: when process_review is over for a request with N >= 1 comments, the
\* provider calls it made are, in order, for each comment from 1 to N one
\* embedding call and then one generation call for that comment, and after
\* them one generation call for the summary: N embedding calls and N + 1
\* generation calls, whatever the providers did.
C12_CallsPerComment ==
    (ProcessReviewOver /\ ~InputMissing) =>
        /\ CallsInOrder
        /\ Len(calls) = 2 * Len(input_data.review_comments) + 1
        /\ Len(SelectSeq(calls, LAMBDA c : c.api = "embed_content"))
               = Len(input_data.review_comments)
        /\ Len(GenerationCalls) = Len(input_data.review_comments) + 1

\* the parser has taken a line
LineTaken == parser.at \in {"loop", "returned"} /\ parser.pos > 0

\* the line taken last, as the parser looks at it: without the blanks
\* around it
LastLine == strip(parser.lines[parser.pos])

\* the field of a header line: a line whose text, in lower case, has
\* "positive rephrasing", "why", or "suggested improvement"/"improvement"
\* in it; None for a line that is no header
HeaderField(line) ==
    IF HasWord(line, "positive rephrasing") THEN "positive_rephrasing"
    ELSE IF HasWord(line, "why") THEN "the_why"
    ELSE IF HasWord(line, "suggested improvement") \/ HasWord(line, "improvement")
    THEN "suggested_improvement"
    ELSE None

IsHeaderLine(line) == HeaderField(line) # None

IsFenceLine(line) == Len(line) >= 3 /\ SubSeq(line, 1, 3) = FENCE

\* the last line toggled the code-example section and left the texts
Toggled ==
    /\ parser.state.current_section =
           IF parser.before.current_section = "code_example" THEN None
           ELSE "code_example"
    /\ parser.state.result = parser.before.result

\* the last line set the active section to its field and left the texts
HeaderSet ==
    /\ parser.state.current_section = HeaderField(LastLine)
    /\ parser.state.result = parser.before.result

\* the last line went, with a space after it, to the end of the text of
\* the active section, or nowhere when no section was active
TextTaken ==
    LET section == parser.before.current_section
    IN /\ parser.state.current_section = section
       /\ IF section = None
          THEN parser.state.result = parser.before.result
          ELSE /\ DOMAIN parser.state.result.v = DOMAIN parser.before.result.v
               /\ \A key \in DOMAIN parser.state.result.v :
                      parser.state.result.v[key] =
                          IF key = section
                          THEN PyStr(parser.before.result.v[key].v
                                     \o LastLine \o " ")
                          ELSE parser.before.result.v[key]

\* before the first line no section is active and every text is empty
StartsWithNoSection ==
    (parser.at = "loop" /\ parser.pos = 0) =>
        /\ parser.state.current_section = None
        /\ \A key \in {"positive_rephrasing", "the_why",
                         "suggested_improvement", "code_example"} :
               parser.state.result.v[key] = PyStr("")

\* the value returned is the result the loop ended with, the one the
\* synthesizer gets
ReturnsResult ==
    parser.at = "returned" =>
        parser.state.result = _parse_fallback_response(parser.response_text)

\* C13 as stated: the parser starts with no active section; every line
\* that starts with the fence marker toggles the code-example section;
\* every header line sets the active section to its field; every other
\* line that is not empty is appended with a space to the text of the
\* active section, or discarded when none is active; an empty line changes
\* nothing.
C13_ParserStateMachine ==
    /\ StartsWithNoSection
    /\ ReturnsResult
    /\ LineTaken =>
           /\ IsFenceLine(LastLine) => Toggled
           /\ IsHeaderLine(LastLine) => HeaderSet
           /\ (~IsFenceLine(LastLine) /\ ~IsHeaderLine(LastLine)
               /\ LastLine # "") => TextTaken
           /\ LastLine = "" => parser.state = parser.before

\* C13 amended: as stated, but a line that starts with the fence marker
\* toggles the code-example section only when it is no header line; a
\* fence line with a header phrase in it is a header line like any other.
C13_HeadersBeforeFences ==
    /\ StartsWithNoSection
    /\ ReturnsResult
    /\ LineTaken =>
           /\ (IsFenceLine(LastLine) /\ ~IsHeaderLine(LastLine)) => Toggled
           /\ IsHeaderLine(LastLine) => HeaderSet
           /\ (~IsFenceLine(LastLine) /\ ~IsHeaderLine(LastLine)
               /\ LastLine # "") => TextTaken
           /\ LastLine = "" => parser.state = parser.before

\* C13's case: inside a code example a fence line with "why" in it was
\* taken as the header of the_why, and the line after it went to the_why
C13_Witness ==
    /\ parser.at = "returned"
    /\ parser.lines = <<"~~~python", "~~~ why", "Nice work.  ">>
    /\ parser.before.current_section = "the_why"
    /\ parser.state.result.v["the_why"] = PyStr("Nice work. ")
    /\ parser.state.result.v["code_example"] = PyStr("")

====
